---------------------------- MODULE Spec2Model ----------------------------
(***************************************************************************)
(* SneakSync marketplace backend: the listing / offer / order lifecycle of *)
(* src/main.py over the four collections of the document store.            *)
(*                                                                         *)
(* Each HTTP handler is a sequence of store operations; every store        *)
(* operation (find_one, create_document, update_one) is one atomic step,   *)
(* and the handler's local computation is folded into the step of the      *)
(* store operation that follows it.  Requests are served by the workers in *)
(* Workers, which interleave freely between store operations.              *)
(*                                                                         *)
(* The model covers a configured store (db is not None); the 500 answer of *)
(* an unconfigured store touches no record.  Timestamps, seller_id, the    *)
(* product's descriptive fields and payment_method are carried by no       *)
(* decision of the handlers and are left out of the documents.             *)
(***************************************************************************)
EXTENDS Integers, Sequences, FiniteSets, TLC

(***************************************************************************)
(* Bounds of the model.                                                    *)
(***************************************************************************)
\* documents the store holds in one run
MaxDocs == 4

Workers == {1, 2}

(***************************************************************************)
(* Identifiers.  A stored document's _id is its position in its collection *)
(* (an ObjectId).  An identifier string sent by a client is an integer:    *)
(* k > 0 is the canonical (lower-case hex) text of ObjectId k, -k is       *)
(* another spelling of the same 24 hex digits (upper case), and 0 is a     *)
(* string that is no ObjectId at all.                                      *)
(***************************************************************************)
ObjectIdIsValid(s) == s # 0

ObjectId(s) == IF s < 0 THEN 0 - s ELSE s

Str(oid) == oid

\* the identifier string s names stored document oid
Identifies(s, oid) == ObjectIdIsValid(s) /\ ObjectId(s) = oid

(***************************************************************************)
(* A field a document does not have.                                       *)
(***************************************************************************)
Absent == "<absent>"

Get(v, default) == IF v = Absent THEN default ELSE v

Truthy(v) == v # Absent /\ v # ""

(***************************************************************************)
(* The schemas' constraints (src/schemas.py).                              *)
(***************************************************************************)
ListingTypes == {"fixed_price", "auction", "make_offer"}

ListingStatuses == {"active", "sold", "paused", "ended"}

ShippingOptions == {"standard", "express", "store_pickup", "dropship"}

CurrencyValid(c) == Len(c) = 3

ListingValid(price, listing_type) ==
    /\ price >= 0
    /\ listing_type \in ListingTypes

OfferValid(offer_price) == offer_price >= 0

\* the shipping option left unchecked
OrderValidAnyShipping(amount, currency, shipping_option) ==
    /\ amount >= 0
    /\ CurrencyValid(currency)

OrderValid(amount, currency, shipping_option) ==
    /\ amount >= 0
    /\ CurrencyValid(currency)
    /\ shipping_option \in ShippingOptions

(***************************************************************************)
(* Inputs of the requests.                                                 *)
(***************************************************************************)
Slugs == {"", "air-max-1"}

PriceInputs == {-5, 120}

ListingTypeInputs == {"fixed_price", "bogus"}

OfferPriceInputs == {-1, 90}

ShippingInputs == {"standard", "teleport"}

Buyers == {"alice"}

\* 0 is malformed, -1 respells listing 1, MaxDocs + 1 is never in the store
ListingIdInputs == ((0 - 1) .. 2) \cup {MaxDocs + 1}

(***************************************************************************)
(* Listing documents the store may hold before the service starts: written *)
(* by another client of the database, they follow the Listing schema but   *)
(* may lack the fields the schema defaults (currency, status) or carry any *)
(* status of the schema.  Their product is not in the store.               *)
(***************************************************************************)
LegacyListing(c, s) ==
    [product_id |-> Str(MaxDocs + 1), price |-> 80,
     listing_type |-> "fixed_price", currency |-> c, status |-> s]

LegacyListings ==
    {LegacyListing("EUR", s) : s \in ListingStatuses \cup {Absent, ""}}
        \cup {LegacyListing(Absent, "active")}

VARIABLES
    product,    \* the "product" collection: sequence of documents
    listing,    \* the "listing" collection
    offer,      \* the "offer" collection
    order,      \* the "order" collection
    legacy,     \* how many listing documents predate the service
    pc,         \* per worker: where its handler stands
    req,        \* per worker: the payload fields the handler still reads
    local,      \* per worker: the handler's local variables
    resp,       \* per worker: the response (status code and body)
    pre         \* per worker: the number of orders in the store when its
                \* checkout was accepted (history, read by no handler)

store == <<product, listing, offer, order>>

vars == <<product, listing, offer, order, legacy, pc, req, local, resp, pre>>

NoReq == [none |-> TRUE]

NoLocal == [none |-> TRUE]

NoResp == [code |-> 0]

NoSizes == [none |-> TRUE]

(***************************************************************************)
(* The document store gateway.                                             *)
(***************************************************************************)
\* create_document(collection, data): insert, the generated _id as text
CreateDocument(coll, doc) == Append(coll, doc)

InsertedId(coll) == Str(Len(coll) + 1)

\* find_one({"_id": oid}): the document's position, 0 if there is none
FindById(coll, oid) == IF oid \in 1..Len(coll) THEN oid ELSE 0

\* find_one({"slug": slug}): the first matching product, 0 if there is none
FindBySlug(slug) ==
    LET hits == {i \in 1..Len(product) : product[i].slug = slug}
    IN  IF hits = {} THEN 0
        ELSE CHOOSE i \in hits : \A j \in hits : i <= j

\* update_one({"_id": oid}, {"$set": {"status": status}})
UpdateStatus(oid, status) ==
    IF oid \in 1..Len(listing)
    THEN [listing EXCEPT ![oid].status = status]
    ELSE listing

Init ==
    /\ product = <<>>
    /\ listing \in {<<>>} \cup {<<d>> : d \in LegacyListings}
    /\ offer = <<>>
    /\ order = <<>>
    /\ legacy = Len(listing)
    /\ pc = [w \in Workers |-> "idle"]
    /\ req = [w \in Workers |-> NoReq]
    /\ local = [w \in Workers |-> NoLocal]
    /\ resp = [w \in Workers |-> NoResp]
    /\ pre = [w \in Workers |-> NoSizes]

\* HTTPException(status_code=404, detail="Listing not found")
NotFound == [code |-> 404, detail |-> "Listing not found"]

\* HTTPException(status_code=400, detail="Listing not available")
InvalidState == [code |-> 400, detail |-> "Listing not available"]

\* a schema's ValidationError leaves the handler: 500
ValidationError == [code |-> 500, detail |-> "Internal Server Error"]

\* inserts the handler of worker w may still make
Pending(w) ==
    CASE pc[w] = "cl_product" -> 2
      [] pc[w] \in {"cl_listing", "of_insert", "co_insert"} -> 1
      [] OTHER -> 0

RECURSIVE SumPending(_)
SumPending(ws) ==
    IF ws = {} THEN 0
    ELSE LET w == CHOOSE x \in ws : TRUE
         IN  Pending(w) + SumPending(ws \ {w})

\* the service takes a request whose n inserts still fit the store
Admit(n) ==
    Len(product) + Len(listing) + Len(offer) + Len(order)
        + SumPending(Workers) + n <= MaxDocs

\* the handler returns or raises: the response is all that is left of it
Finish(w, label, r) ==
    /\ pc' = [pc EXCEPT ![w] = label]
    /\ resp' = [resp EXCEPT ![w] = r]
    /\ req' = [req EXCEPT ![w] = NoReq]
    /\ local' = [local EXCEPT ![w] = NoLocal]
    /\ pre' = [pre EXCEPT ![w] = NoSizes]

(***************************************************************************)
(* POST /listings                                                          *)
(***************************************************************************)
\* the lookup forgotten: every request inserts its product
ExistingProductNever(slug) == 0

\* the lookup made for an empty slug too
ExistingProductAnySlug(slug) == FindBySlug(slug)

\* lines 121-123: the product that has the payload's slug, 0 if the slug is
\* empty or no product has it
ExistingProduct(slug) == IF Truthy(slug) THEN FindBySlug(slug) ELSE 0

\* lines 120-126: the product payload, the lookup by slug
CreateListingFind(w, slug, price, listing_type) ==
    /\ pc[w] = "idle"
    /\ LET existing == ExistingProduct(slug)
       IN  /\ Admit(IF existing # 0 THEN 1 ELSE 2)
           /\ local' = [local EXCEPT ![w] =
                  [existing |-> existing,
                   product_id |-> IF existing # 0 THEN Str(existing) ELSE 0]]
           /\ pc' = [pc EXCEPT ![w] =
                  IF existing # 0 THEN "cl_listing" ELSE "cl_product"]
    /\ req' = [req EXCEPT ![w] = [slug |-> slug, price |-> price,
                                  listing_type |-> listing_type]]
    /\ UNCHANGED <<store, legacy, resp, pre>>

\* the product's id taken from the collection's size before the insert
CreateListingProductStaleId(w) ==
    /\ pc[w] = "cl_product"
    /\ product' = CreateDocument(product, [slug |-> req[w].slug])
    /\ local' = [local EXCEPT ![w].product_id = Str(Len(product))]
    /\ pc' = [pc EXCEPT ![w] = "cl_listing"]
    /\ UNCHANGED <<listing, offer, order, legacy, req, resp, pre>>

\* line 128: no product found, insert the payload's product
CreateListingProduct(w) ==
    /\ pc[w] = "cl_product"
    /\ product' = CreateDocument(product, [slug |-> req[w].slug])
    /\ local' = [local EXCEPT ![w].product_id = InsertedId(product)]
    /\ pc' = [pc EXCEPT ![w] = "cl_listing"]
    /\ UNCHANGED <<listing, offer, order, legacy, req, resp, pre>>

\* lines 130-138: build the Listing (validated), insert it, answer
CreateListingInsert(w) ==
    /\ pc[w] = "cl_listing"
    /\ IF ListingValid(req[w].price, req[w].listing_type)
       THEN /\ listing' = CreateDocument(listing,
                  [product_id |-> local[w].product_id, price |-> req[w].price,
                   listing_type |-> req[w].listing_type,
                   currency |-> "USD", status |-> "active"])
            /\ Finish(w, "cl_done",
                      [code |-> 200, status |-> "listing_created",
                       listing_id |-> InsertedId(listing),
                       product_id |-> local[w].product_id])
       ELSE /\ UNCHANGED listing
            /\ Finish(w, "cl_done", ValidationError)
    /\ UNCHANGED <<product, offer, order, legacy>>

(***************************************************************************)
(* POST /offers                                                            *)
(***************************************************************************)
\* the id parsed but never looked up
OfferListingUnchecked(listing_id) ==
    IF ObjectIdIsValid(listing_id) THEN ObjectId(listing_id) ELSE 0

\* offers taken on active listings only
OfferListingActiveOnly(listing_id) ==
    IF ObjectIdIsValid(listing_id)
    THEN LET found == FindById(listing, ObjectId(listing_id))
         IN  IF found # 0 /\ listing[found].status = "active" THEN found ELSE 0
    ELSE 0

\* line 154: the listing the offer names, 0 if the id is malformed or unknown
OfferListing(listing_id) ==
    IF ObjectIdIsValid(listing_id)
    THEN FindById(listing, ObjectId(listing_id))
    ELSE 0

\* lines 154-156: the listing must exist
CreateOfferFind(w, buyer_id, listing_id, offer_price) ==
    /\ pc[w] = "idle"
    /\ LET found == OfferListing(listing_id)
       IN  IF found = 0
           THEN Finish(w, "of_done", NotFound)
           ELSE /\ Admit(1)
                /\ pc' = [pc EXCEPT ![w] = "of_insert"]
                /\ req' = [req EXCEPT ![w] = [buyer_id |-> buyer_id,
                                              listing_id |-> listing_id,
                                              offer_price |-> offer_price]]
                /\ UNCHANGED <<local, resp, pre>>
    /\ UNCHANGED <<store, legacy>>

\* lines 158-164: build the Offer (validated), insert it, answer
CreateOfferInsert(w) ==
    /\ pc[w] = "of_insert"
    /\ IF OfferValid(req[w].offer_price)
       THEN /\ offer' = CreateDocument(offer,
                  [buyer_id |-> req[w].buyer_id,
                   listing_id |-> req[w].listing_id,
                   offer_price |-> req[w].offer_price,
                   currency |-> "USD", status |-> "pending"])
            /\ Finish(w, "of_done",
                      [code |-> 200, status |-> "offer_created",
                       offer_id |-> InsertedId(offer)])
       ELSE /\ UNCHANGED offer
            /\ Finish(w, "of_done", ValidationError)
    /\ UNCHANGED <<product, listing, order, legacy>>

(***************************************************************************)
(* POST /checkout                                                          *)
(***************************************************************************)
\* line 181: the listing to buy, 0 if the id is malformed or unknown
CheckoutListing(listing_id) ==
    IF ObjectIdIsValid(listing_id)
    THEN FindById(listing, ObjectId(listing_id))
    ELSE 0

\* only a sold listing refused
NotAvailableSoldOnly(doc) == doc.status = "sold"

\* anything but "active" refused, a missing status too
NotAvailableUnlessActive(doc) == doc.status # "active"

\* line 185: a status is there and it is not "active"
NotAvailable(doc) == Truthy(doc.status) /\ doc.status # "active"

\* the two errors swapped: a missing listing answered as unavailable
CheckoutFindSwapped(w, buyer_id, listing_id, shipping_option) ==
    /\ pc[w] = "idle"
    /\ LET found == CheckoutListing(listing_id)
       IN  IF found = 0
           THEN Finish(w, "co_done", InvalidState)
           ELSE IF NotAvailable(listing[found])
                THEN Finish(w, "co_done", NotFound)
                ELSE /\ Admit(1)
                     /\ pc' = [pc EXCEPT ![w] = "co_insert"]
                     /\ req' = [req EXCEPT ![w] =
                            [buyer_id |-> buyer_id,
                             shipping_option |-> shipping_option]]
                     /\ local' = [local EXCEPT ![w] =
                            [found |-> found, listing |-> listing[found]]]
                     /\ pre' = [pre EXCEPT ![w] = [order |-> Len(order)]]
                     /\ UNCHANGED resp
    /\ UNCHANGED <<store, legacy>>

\* lines 181-186: read the listing, 404 if none, 400 if not active
CheckoutFind(w, buyer_id, listing_id, shipping_option) ==
    /\ pc[w] = "idle"
    /\ LET found == CheckoutListing(listing_id)
       IN  IF found = 0
           THEN Finish(w, "co_done", NotFound)
           ELSE IF NotAvailable(listing[found])
                THEN Finish(w, "co_done", InvalidState)
                ELSE /\ Admit(1)
                     /\ pc' = [pc EXCEPT ![w] = "co_insert"]
                     /\ req' = [req EXCEPT ![w] =
                            [buyer_id |-> buyer_id,
                             shipping_option |-> shipping_option]]
                     /\ local' = [local EXCEPT ![w] =
                            [found |-> found, listing |-> listing[found]]]
                     /\ pre' = [pre EXCEPT ![w] = [order |-> Len(order)]]
                     /\ UNCHANGED resp
    /\ UNCHANGED <<store, legacy>>

\* the listing's own currency ignored
NewOrderUSD(buyer_id, oid, doc, shipping_option) ==
    [buyer_id |-> buyer_id, listing_id |-> Str(oid), amount |-> doc.price,
     currency |-> "USD", shipping_option |-> shipping_option,
     status |-> "created", escrow_status |-> "held"]

\* the Order given the listing's product_id for its listing_id
NewOrderProductRef(buyer_id, oid, doc, shipping_option) ==
    [buyer_id |-> buyer_id, listing_id |-> doc.product_id, amount |-> doc.price,
     currency |-> Get(doc.currency, "USD"), shipping_option |-> shipping_option,
     status |-> "created", escrow_status |-> "held"]

\* lines 188-195: the Order's fields, from the payload and the listing read
NewOrder(buyer_id, oid, doc, shipping_option) ==
    [buyer_id |-> buyer_id, listing_id |-> Str(oid), amount |-> doc.price,
     currency |-> Get(doc.currency, "USD"), shipping_option |-> shipping_option,
     status |-> "created", escrow_status |-> "held"]

\* the Order validated but not written before the status write
CheckoutInsertNoWrite(w) ==
    /\ pc[w] = "co_insert"
    /\ LET o == NewOrder(req[w].buyer_id, local[w].found, local[w].listing,
                          req[w].shipping_option)
       IN  IF OrderValid(o.amount, o.currency, o.shipping_option)
           THEN /\ UNCHANGED order
                /\ local' = [local EXCEPT ![w] =
                       [found |-> local[w].found, listing |-> local[w].listing,
                        order_id |-> InsertedId(order)]]
                /\ pc' = [pc EXCEPT ![w] = "co_sold"]
                /\ UNCHANGED <<req, resp, pre>>
           ELSE /\ UNCHANGED order
                /\ Finish(w, "co_done", ValidationError)
    /\ UNCHANGED <<product, listing, offer, legacy>>

\* lines 188-196: build the Order from the listing read (validated), insert
CheckoutInsert(w) ==
    /\ pc[w] = "co_insert"
    /\ LET o == NewOrder(req[w].buyer_id, local[w].found, local[w].listing,
                          req[w].shipping_option)
       IN  IF OrderValid(o.amount, o.currency, o.shipping_option)
           THEN /\ order' = CreateDocument(order, o)
                /\ local' = [local EXCEPT ![w] =
                       [found |-> local[w].found, listing |-> local[w].listing,
                        order_id |-> InsertedId(order)]]
                /\ pc' = [pc EXCEPT ![w] = "co_sold"]
                /\ UNCHANGED <<req, resp, pre>>
           ELSE /\ UNCHANGED order
                /\ Finish(w, "co_done", ValidationError)
    /\ UNCHANGED <<product, listing, offer, legacy>>

\* the status write forgotten
MarkSoldSkipped(oid) == listing

\* the listing withdrawn instead of sold
MarkSoldAsEnded(oid) == UpdateStatus(oid, "ended")

\* lines 198-199: the status write
MarkSold(oid) == UpdateStatus(oid, "sold")

\* the status write also copies the listing's raw currency into the order
CheckoutMarkSoldResnapshot(w) ==
    /\ pc[w] = "co_sold"
    /\ listing' = MarkSold(local[w].found)
    /\ order' = [i \in 1..Len(order) |->
                    IF Identifies(order[i].listing_id, local[w].found)
                    THEN [order[i] EXCEPT !.currency = local[w].listing.currency]
                    ELSE order[i]]
    /\ Finish(w, "co_done", [code |-> 200, status |-> "order_confirmation",
                             order_id |-> local[w].order_id])
    /\ UNCHANGED <<product, offer, legacy>>

\* lines 198-201: mark the listing sold, answer
CheckoutMarkSold(w) ==
    /\ pc[w] = "co_sold"
    /\ listing' = MarkSold(local[w].found)
    /\ Finish(w, "co_done", [code |-> 200, status |-> "order_confirmation",
                             order_id |-> local[w].order_id])
    /\ UNCHANGED <<product, offer, order, legacy>>

(***************************************************************************)
(* The response leaves; the worker is free for the next request.           *)
(***************************************************************************)
Return(w) ==
    /\ pc[w] \in {"cl_done", "of_done", "co_done"}
    /\ pc' = [pc EXCEPT ![w] = "idle"]
    /\ resp' = [resp EXCEPT ![w] = NoResp]
    /\ UNCHANGED <<store, legacy, req, local, pre>>

Handle(w) ==
    \/ CreateListingProduct(w)
    \/ CreateListingInsert(w)
    \/ CreateOfferInsert(w)
    \/ CheckoutInsert(w)
    \/ CheckoutMarkSold(w)
    \/ Return(w)

\* the server hands a request to its first free worker
FirstFree(w) == \A v \in Workers : v < w => pc[v] # "idle"

Next ==
    \/ \E w \in Workers, slug \in Slugs, price \in PriceInputs,
          listing_type \in ListingTypeInputs :
          FirstFree(w) /\ CreateListingFind(w, slug, price, listing_type)
    \/ \E w \in Workers, buyer_id \in Buyers, listing_id \in ListingIdInputs,
          offer_price \in OfferPriceInputs :
          FirstFree(w) /\ CreateOfferFind(w, buyer_id, listing_id, offer_price)
    \/ \E w \in Workers, buyer_id \in Buyers, listing_id \in ListingIdInputs,
          shipping_option \in ShippingInputs :
          FirstFree(w) /\ CheckoutFind(w, buyer_id, listing_id, shipping_option)
    \/ \E w \in Workers : Handle(w)

Spec == Init /\ [][Next]_vars

(***************************************************************************)
(* One request at a time: a request is accepted only when no other is in   *)
(* progress.                                                               *)
(***************************************************************************)
AllIdle == \A w \in Workers : pc[w] = "idle"

NextSeq ==
    \/ \E w \in Workers, slug \in Slugs, price \in PriceInputs,
          listing_type \in ListingTypeInputs :
          AllIdle /\ FirstFree(w) /\ CreateListingFind(w, slug, price, listing_type)
    \/ \E w \in Workers, buyer_id \in Buyers, listing_id \in ListingIdInputs,
          offer_price \in OfferPriceInputs :
          AllIdle /\ FirstFree(w)
                  /\ CreateOfferFind(w, buyer_id, listing_id, offer_price)
    \/ \E w \in Workers, buyer_id \in Buyers, listing_id \in ListingIdInputs,
          shipping_option \in ShippingInputs :
          AllIdle /\ FirstFree(w)
                  /\ CheckoutFind(w, buyer_id, listing_id, shipping_option)
    \/ \E w \in Workers : Handle(w)

SpecSeq == Init /\ [][NextSeq]_vars

(***************************************************************************)
(* Checkouts of one listing never overlap: a checkout is accepted only     *)
(* when no checkout of the listing it names is in progress.  Everything    *)
(* else interleaves as in Spec.                                            *)
(***************************************************************************)
NoCheckoutOf(listing_id) ==
    \A v \in Workers :
        pc[v] \in {"co_insert", "co_sold"}
            => ~(ObjectIdIsValid(listing_id)
                   /\ local[v].found = ObjectId(listing_id))

NextNoOverlap ==
    \/ \E w \in Workers, slug \in Slugs, price \in PriceInputs,
          listing_type \in ListingTypeInputs :
          FirstFree(w) /\ CreateListingFind(w, slug, price, listing_type)
    \/ \E w \in Workers, buyer_id \in Buyers, listing_id \in ListingIdInputs,
          offer_price \in OfferPriceInputs :
          FirstFree(w) /\ CreateOfferFind(w, buyer_id, listing_id, offer_price)
    \/ \E w \in Workers, buyer_id \in Buyers, listing_id \in ListingIdInputs,
          shipping_option \in ShippingInputs :
          FirstFree(w) /\ NoCheckoutOf(listing_id)
                       /\ CheckoutFind(w, buyer_id, listing_id, shipping_option)
    \/ \E w \in Workers : Handle(w)

SpecNoOverlap == Init /\ [][NextNoOverlap]_vars

TypeOK ==
    /\ Len(product) + Len(listing) + Len(offer) + Len(order) <= MaxDocs
    /\ \A w \in Workers :
          pc[w] \in {"idle", "cl_product", "cl_listing", "cl_done", "of_insert",
                     "of_done", "co_insert", "co_sold", "co_done"}

(***************************************************************************)
(*                           The claims                                    *)
(***************************************************************************)
ListingIds == 1..Len(listing)

\* the orders that reference listing l
OrdersOf(l) == {i \in 1..Len(order) : Identifies(order[i].listing_id, l)}

\* worker w takes a request in this step
Accepts(w) == pc[w] = "idle" /\ pc'[w] # "idle"

\* worker w's handler ends in this step
CheckoutEnds(w) == pc[w] \in {"co_insert", "co_sold"} /\ pc'[w] = "co_done"

\* a checkout of an active listing is let through to the Order insert
ActiveCheckoutProceeds ==
    \A w \in Workers, b \in Buyers, s \in ListingIdInputs, o \in ShippingInputs :
        \A l \in ListingIds :
            (Accepts(w) /\ Identifies(s, l) /\ listing[l].status = "active"
                /\ CheckoutFind(w, b, s, o))
            => /\ pc'[w] = "co_insert"
               /\ local'[w].found = l
               /\ req'[w].buyer_id = b
               /\ UNCHANGED store

\* what C1 promises at the end of worker w's checkout of listing l
CheckoutPost(w, l) ==
    /\ resp'[w].code = 200
    /\ Len(order') = pre[w].order + 1
    /\ resp'[w].order_id = Str(Len(order'))
    /\ LET o == order'[Len(order')]
       IN  /\ Identifies(o.listing_id, l)
           /\ o.buyer_id = req[w].buyer_id
           /\ o.amount = listing[l].price
           /\ o.currency = (IF listing[l].currency = Absent
                            THEN "USD" ELSE listing[l].currency)
           /\ o.status = "created"
           /\ o.escrow_status = "held"
    /\ listing'[l].status = "sold"

\* C1 as stated: run alone, every checkout request on an existing listing
\* whose status is "active" ends with exactly one new Order (the listing's
\* id, price and currency, "USD" if it has none; "created", "held") and with
\* the listing "sold".
C1_AnyCheckoutOfActiveCreatesOrder ==
    [][/\ ActiveCheckoutProceeds
       /\ \A w \in Workers :
            (CheckoutEnds(w) /\ listing[local[w].found].status = "active")
            => CheckoutPost(w, local[w].found)]_vars

\* C1 amended: the same for every checkout request whose shipping_option is
\* one the Order schema accepts.
C1_ValidCheckoutOfActiveCreatesOrder ==
    [][/\ ActiveCheckoutProceeds
       /\ \A w \in Workers :
            (CheckoutEnds(w) /\ listing[local[w].found].status = "active"
                /\ req[w].shipping_option \in ShippingOptions)
            => CheckoutPost(w, local[w].found)]_vars

\* a checkout has answered 200 for the one Order of a EUR listing, now sold
C1_Witness ==
    \E w \in Workers :
        /\ pc[w] = "co_done"
        /\ resp[w].code = 200
        /\ Len(order) = 1
        /\ order[1].currency = "EUR"
        /\ order[1].amount = listing[ObjectId(order[1].listing_id)].price
        /\ listing[ObjectId(order[1].listing_id)].status = "sold"

\* C2: in every reachable state, whatever the interleaving of concurrent
\* checkouts, at most one Order references any given listing.
C2_AtMostOneOrderPerListing ==
    \A l \in ListingIds : Cardinality(OrdersOf(l)) <= 1

\* C3: a checkout request on an existing listing whose status is sold, paused
\* or ended answers 400 "Listing not available" at once and changes no record.
C3_NotActiveRejected ==
    [][\A w \in Workers, b \in Buyers, s \in ListingIdInputs,
          o \in ShippingInputs :
          \A l \in ListingIds :
            (Accepts(w) /\ Identifies(s, l)
                /\ listing[l].status \in {"sold", "paused", "ended"}
                /\ CheckoutFind(w, b, s, o))
            => /\ pc'[w] = "co_done"
               /\ resp'[w].code = 400
               /\ resp'[w].detail = "Listing not available"
               /\ UNCHANGED store]_vars

\* a checkout was refused with 400 while the only listing is paused
C3_Witness ==
    \E w \in Workers :
        /\ pc[w] = "co_done"
        /\ resp[w].code = 400
        /\ Len(listing) = 1
        /\ listing[1].status = "paused"
        /\ order = <<>>

\* C4: when checkouts of one listing do not overlap, a checkout accepted for
\* a listing that an Order already references (an earlier checkout of it has
\* completed) answers 400 and changes no record, and no listing is ever
\* referenced by more than one Order.
C4_SecondCheckoutRejected ==
    [][/\ \A w \in Workers, b \in Buyers, s \in ListingIdInputs,
            o \in ShippingInputs :
            \A l \in ListingIds :
              (Accepts(w) /\ Identifies(s, l) /\ OrdersOf(l) # {}
                  /\ CheckoutFind(w, b, s, o))
              => /\ pc'[w] = "co_done"
                 /\ resp'[w].code = 400
                 /\ UNCHANGED store
       /\ C2_AtMostOneOrderPerListing']_vars

\* the only listing was created active, is sold to its one Order, and a later
\* checkout was refused with 400
C4_Witness ==
    \E w \in Workers :
        /\ pc[w] = "co_done"
        /\ resp[w].code = 400
        /\ legacy = 0
        /\ Len(listing) = 1
        /\ listing[1].status = "sold"
        /\ Cardinality(OrdersOf(1)) = 1

\* C5: a listing's status is changed only by a checkout's status write and
\* only to "sold"; every listing is created "active"; the write is never
\* applied to a listing that is already sold; a sold listing stays sold.
C5_StatusLifecycle ==
    [][\A l \in 1..Len(listing') :
         IF l \in ListingIds
         THEN /\ listing'[l].status # listing[l].status
                 => /\ listing'[l].status = "sold"
                    /\ \E w \in Workers :
                         /\ pc[w] = "co_sold"
                         /\ pc'[w] = "co_done"
                         /\ local[w].found = l
              /\ listing[l].status = "sold" => listing'[l].status = "sold"
              /\ \A w \in Workers :
                   (pc[w] = "co_sold" /\ pc'[w] = "co_done"
                       /\ local[w].found = l)
                   => listing[l].status # "sold"
         ELSE listing'[l].status = "active"]_vars

\* C6: a valid createListing request whose slug is the slug of a Product in
\* the store goes straight to the Listing insert, adds no Product, and the
\* new Listing's and the response's product_id is the id of a stored Product
\* with that slug.
C6_ExistingSlugReused ==
    [][/\ \A w \in Workers, slug \in Slugs \ {""}, price \in PriceInputs,
            t \in ListingTypeInputs :
            (Accepts(w) /\ (\E i \in 1..Len(product) : product[i].slug = slug)
                /\ CreateListingFind(w, slug, price, t))
            => /\ pc'[w] = "cl_listing"
               /\ local'[w].existing \in 1..Len(product)
               /\ product[local'[w].existing].slug = slug
               /\ req'[w].slug = slug
               /\ UNCHANGED store
       /\ \A w \in Workers :
            (pc[w] = "cl_listing" /\ pc'[w] = "cl_done"
                /\ local[w].existing # 0
                /\ ListingValid(req[w].price, req[w].listing_type))
            => /\ product' = product
               /\ Len(listing') = Len(listing) + 1
               /\ LET new == listing'[Len(listing')]
                  IN  /\ Identifies(new.product_id, local[w].existing)
                      /\ product[local[w].existing].slug = req[w].slug
                      /\ resp'[w].product_id = new.product_id
               /\ resp'[w].code = 200
               /\ resp'[w].listing_id = Str(Len(listing'))]_vars

\* two listings were created for the one product of the store
C6_Witness ==
    \E w \in Workers :
        /\ pc[w] = "cl_done"
        /\ resp[w].code = 200
        /\ resp[w].listing_id = Str(2)
        /\ legacy = 0
        /\ Len(product) = 1
        /\ Len(listing) = 2
        /\ listing[1].product_id = Str(1)
        /\ listing[2].product_id = Str(1)

\* C7: a valid createListing request whose slug no Product in the store has
\* adds no record when accepted, then inserts exactly one Product carrying
\* the slug, then exactly one Listing, "active", whose product_id is that
\* Product's id, and answers both identifiers.
C7_NewSlugCreatesProduct ==
    [][/\ \A w \in Workers, slug \in Slugs, price \in PriceInputs,
            t \in ListingTypeInputs :
            (Accepts(w) /\ (\A i \in 1..Len(product) : product[i].slug # slug)
                /\ CreateListingFind(w, slug, price, t))
            => /\ pc'[w] = "cl_product"
               /\ req'[w].slug = slug
               /\ UNCHANGED store
       /\ \A w \in Workers :
            (pc[w] = "cl_product" /\ pc'[w] # "cl_product")
            => /\ pc'[w] = "cl_listing"
               /\ product' = Append(product, [slug |-> req[w].slug])
               /\ Identifies(local'[w].product_id, Len(product'))
               /\ local'[w].existing = 0
               /\ UNCHANGED <<listing, offer, order>>
       /\ \A w \in Workers :
            (pc[w] = "cl_listing" /\ pc'[w] = "cl_done"
                /\ local[w].existing = 0
                /\ ListingValid(req[w].price, req[w].listing_type))
            => /\ product' = product
               /\ Len(listing') = Len(listing) + 1
               /\ LET new == listing'[Len(listing')]
                      p == ObjectId(new.product_id)
                  IN  /\ new.status = "active"
                      /\ new.product_id = local[w].product_id
                      /\ p \in 1..Len(product)
                      /\ product[p].slug = req[w].slug
                      /\ resp'[w].product_id = new.product_id
               /\ resp'[w].code = 200
               /\ resp'[w].listing_id = Str(Len(listing'))]_vars

\* the first request created product 1 and its active listing 1
C7_Witness ==
    \E w \in Workers :
        /\ pc[w] = "cl_done"
        /\ resp[w].code = 200
        /\ resp[w].product_id = Str(1)
        /\ resp[w].listing_id = Str(1)
        /\ legacy = 0
        /\ Len(product) = 1
        /\ product[1].slug = "air-max-1"
        /\ Len(listing) = 1
        /\ listing[1].status = "active"
        /\ listing[1].product_id = Str(1)

\* C8: in every reachable state no two Product records have the same
\* non-empty slug.
C8_UniqueSlug ==
    \A i, j \in 1..Len(product) :
        (i # j /\ product[i].slug # "") => product[i].slug # product[j].slug

\* C9: a createOffer request whose listing_id is malformed or names no stored
\* listing answers 404 "Listing not found" at once and changes no record.
C9_OfferNotFound ==
    [][\A w \in Workers, b \in Buyers, s \in ListingIdInputs,
          o \in OfferPriceInputs :
          (Accepts(w) /\ (~ \E l \in ListingIds : Identifies(s, l))
              /\ CreateOfferFind(w, b, s, o))
          => /\ pc'[w] = "of_done"
             /\ resp'[w].code = 404
             /\ resp'[w].detail = "Listing not found"
             /\ UNCHANGED store]_vars

\* an offer was refused with 404 while the store holds no listing
C9_Witness ==
    \E w \in Workers :
        /\ pc[w] = "of_done"
        /\ resp[w].code = 404
        /\ listing = <<>>
        /\ offer = <<>>

\* C10: a checkout request whose listing_id is malformed or names no stored
\* listing answers 404 "Listing not found" at once, creates no Order and
\* leaves every listing as it is.
C10_CheckoutNotFound ==
    [][\A w \in Workers, b \in Buyers, s \in ListingIdInputs,
          o \in ShippingInputs :
          (Accepts(w) /\ (~ \E l \in ListingIds : Identifies(s, l))
              /\ CheckoutFind(w, b, s, o))
          => /\ pc'[w] = "co_done"
             /\ resp'[w].code = 404
             /\ resp'[w].detail = "Listing not found"
             /\ order' = order
             /\ listing' = listing]_vars

\* a checkout was refused with 404 while the one active listing is unsold
C10_Witness ==
    \E w \in Workers :
        /\ pc[w] = "co_done"
        /\ resp[w].code = 404
        /\ Len(listing) = 1
        /\ listing[1].status = "active"
        /\ order = <<>>

\* C11: once an Order is in the store, no step of any request (a listing or
\* offer being created, another checkout, the status write of its own
\* checkout) removes it or changes its amount, currency, buyer_id or
\* listing_id.
C11_OrderImmutable ==
    [][/\ Len(order') >= Len(order)
       /\ \A i \in 1..Len(order) :
            /\ order'[i].amount = order[i].amount
            /\ order'[i].currency = order[i].currency
            /\ order'[i].buyer_id = order[i].buyer_id
            /\ order'[i].listing_id = order[i].listing_id]_vars

\* the Order of a listing that had no currency still reads "USD" after its
\* listing was marked sold and an offer was made on it
C11_Witness ==
    /\ Len(order) = 1
    /\ order[1].currency = "USD"
    /\ order[1].amount = 80
    /\ listing[1].currency = Absent
    /\ listing[1].status = "sold"
    /\ Len(offer) = 1

\* C12: no step of a createListing request whose listing fails validation
\* (listing_type outside fixed_price/auction/make_offer, or negative price)
\* adds a Product or a Listing to the store, and the request ends in an error.
C12_InvalidListingPersistsNothing ==
    [][\A w \in Workers :
         (pc[w] \in {"cl_product", "cl_listing"} /\ pc'[w] # pc[w]
             /\ ~ ListingValid(req[w].price, req[w].listing_type))
         => /\ product' = product
            /\ listing' = listing
            /\ pc'[w] = "cl_done" => resp'[w].code # 200]_vars

\* C13: a createOffer request naming a stored listing is let through to the
\* Offer insert whatever the listing's status is, writing nothing; with a
\* valid offer_price its insert adds exactly one Offer, "pending", whose
\* listing_id names that listing, leaves every listing, Order, Product and
\* earlier Offer as it is, and answers 200 with the new Offer's id.
C13_OfferOnAnyStatus ==
    [][/\ \A w \in Workers, b \in Buyers, s \in ListingIdInputs,
            o \in OfferPriceInputs :
            \A l \in ListingIds :
              (Accepts(w) /\ Identifies(s, l) /\ CreateOfferFind(w, b, s, o))
              => /\ pc'[w] = "of_insert"
                 /\ req'[w].listing_id = s
                 /\ req'[w].buyer_id = b
                 /\ req'[w].offer_price = o
                 /\ UNCHANGED store
       /\ \A w \in Workers :
            (pc[w] = "of_insert" /\ pc'[w] # "of_insert"
                /\ OfferValid(req[w].offer_price))
            => /\ pc'[w] = "of_done"
               /\ resp'[w].code = 200
               /\ resp'[w].offer_id = Str(Len(offer'))
               /\ Len(offer') = Len(offer) + 1
               /\ \A i \in 1..Len(offer) : offer'[i] = offer[i]
               /\ LET new == offer'[Len(offer')]
                  IN  /\ new.status = "pending"
                      /\ new.listing_id = req[w].listing_id
                      /\ new.buyer_id = req[w].buyer_id
                      /\ new.offer_price = req[w].offer_price
                      /\ \E l \in ListingIds : Identifies(new.listing_id, l)
               /\ UNCHANGED <<product, listing, order>>]_vars

\* an offer was created on the store's one listing, which is sold
C13_Witness ==
    \E w \in Workers :
        /\ pc[w] = "of_done"
        /\ resp[w].code = 200
        /\ Len(listing) = 1
        /\ listing[1].status = "sold"
        /\ Len(offer) = 1
        /\ offer[1].status = "pending"
        /\ Identifies(offer[1].listing_id, 1)

\* C14: a checkout request that read an active listing and whose
\* shipping_option is none of standard/express/store_pickup/dropship ends in
\* an error at the step that builds the Order; neither that step nor the
\* read before it writes anything: no Order is added, the listing's status
\* is not touched.
C14_InvalidCheckoutPersistsNothing ==
    [][/\ \A w \in Workers, b \in Buyers, s \in ListingIdInputs,
            o \in ShippingInputs \ ShippingOptions :
            \A l \in ListingIds :
              (Accepts(w) /\ Identifies(s, l) /\ listing[l].status = "active"
                  /\ CheckoutFind(w, b, s, o))
              => /\ pc'[w] = "co_insert"
                 /\ req'[w].shipping_option = o
                 /\ local'[w].listing = listing[l]
                 /\ UNCHANGED store
       /\ \A w \in Workers :
            (pc[w] = "co_insert" /\ pc'[w] # "co_insert"
                /\ local[w].listing.status = "active"
                /\ req[w].shipping_option \notin ShippingOptions)
            => /\ pc'[w] = "co_done"
               /\ resp'[w].code \notin {0, 200}
               /\ UNCHANGED store]_vars

\* a checkout of the one active listing has failed with the schema's error:
\* there is no Order and the listing is still active
C14_Witness ==
    \E w \in Workers :
        /\ pc[w] = "co_done"
        /\ resp[w] = ValidationError
        /\ Len(listing) = 1
        /\ listing[1].status = "active"
        /\ order = <<>>

\* a checkout naming a listing without status (or with an empty one) is let
\* through to the Order insert, writing nothing
NoStatusCheckoutProceeds ==
    \A w \in Workers, b \in Buyers, s \in ListingIdInputs, o \in ShippingInputs :
        \A l \in ListingIds :
            (Accepts(w) /\ Identifies(s, l) /\ listing[l].status \in {Absent, ""}
                /\ CheckoutFind(w, b, s, o))
            => /\ pc'[w] = "co_insert"
               /\ local'[w].found = l
               /\ local'[w].listing = listing[l]
               /\ req'[w].shipping_option = o
               /\ UNCHANGED store

\* worker w's Order insert succeeds: one Order for the listing it read
OrderInserted(w) ==
    /\ pc'[w] = "co_sold"
    /\ Len(order') = Len(order) + 1
    /\ \A i \in 1..Len(order) : order'[i] = order[i]
    /\ Identifies(order'[Len(order')].listing_id, local[w].found)
    /\ order'[Len(order')].amount = local[w].listing.price
    /\ local'[w].found = local[w].found
    /\ local'[w].listing = local[w].listing

\* the rest of C15: the status write of such a checkout sets "sold" and
\* answers 200, and from then on a checkout of that listing is refused
NoStatusListingSold ==
    /\ \A w \in Workers :
         (pc[w] = "co_sold" /\ pc'[w] # "co_sold"
             /\ local[w].listing.status \in {Absent, ""})
         => /\ pc'[w] = "co_done"
            /\ resp'[w].code = 200
            /\ listing'[local[w].found].status = "sold"
    /\ \A l \in ListingIds :
         listing[l].status = "sold" => listing'[l].status = "sold"
    /\ \A w \in Workers, b \in Buyers, s \in ListingIdInputs,
          o \in ShippingInputs :
          \A l \in 1..legacy :
            (Accepts(w) /\ Identifies(s, l) /\ listing[l].status = "sold"
                /\ CheckoutFind(w, b, s, o))
            => /\ pc'[w] = "co_done"
               /\ resp'[w] = InvalidState
               /\ UNCHANGED store

\* C15 as stated: every checkout request on a stored listing that has no
\* status field, or an empty status, creates an Order and sets the listing's
\* status to "sold"; after that a checkout of the listing answers 400
\* "Listing not available".
C15_AnyCheckoutOfNoStatusSells ==
    [][/\ NoStatusCheckoutProceeds
       /\ \A w \in Workers :
            (pc[w] = "co_insert" /\ pc'[w] # "co_insert"
                /\ local[w].listing.status \in {Absent, ""})
            => OrderInserted(w)
       /\ NoStatusListingSold]_vars

\* C15 amended: the same for every checkout request whose shipping_option is
\* one the Order schema accepts.
C15_ValidCheckoutOfNoStatusSells ==
    [][/\ NoStatusCheckoutProceeds
       /\ \A w \in Workers :
            (pc[w] = "co_insert" /\ pc'[w] # "co_insert"
                /\ local[w].listing.status \in {Absent, ""}
                /\ req[w].shipping_option \in ShippingOptions)
            => OrderInserted(w)
       /\ NoStatusListingSold]_vars

\* the listing that worker v read without a status has since been sold to
\* an Order, and a later checkout of it was refused with 400
C15_Witness ==
    \E w, v \in Workers :
        /\ pc[v] = "co_insert"
        /\ local[v].found = 1
        /\ local[v].listing.status = Absent
        /\ listing[1].status = "sold"
        /\ Cardinality(OrdersOf(1)) = 1
        /\ pc[w] = "co_done"
        /\ resp[w] = InvalidState

\* C16: a createListing request with the empty slug finds no existing
\* Product, however many Products with an empty slug the store holds, and
\* its next step adds one more Product with the empty slug; a valid request
\* then adds its Listing for that new Product.
C16_EmptySlugAlwaysInserts ==
    [][/\ \A w \in Workers, price \in PriceInputs, t \in ListingTypeInputs :
            (Accepts(w) /\ CreateListingFind(w, "", price, t))
            => /\ pc'[w] = "cl_product"
               /\ local'[w].existing = 0
               /\ req'[w].slug = ""
               /\ UNCHANGED store
       /\ \A w \in Workers :
            (pc[w] = "cl_product" /\ pc'[w] # "cl_product" /\ req[w].slug = "")
            => /\ pc'[w] = "cl_listing"
               /\ Len(product') = Len(product) + 1
               /\ \A i \in 1..Len(product) : product'[i] = product[i]
               /\ product'[Len(product')].slug = ""
               /\ Identifies(local'[w].product_id, Len(product'))
       /\ \A w \in Workers :
            (pc[w] = "cl_listing" /\ pc'[w] # "cl_listing" /\ req[w].slug = ""
                /\ ListingValid(req[w].price, req[w].listing_type))
            => /\ resp'[w].code = 200
               /\ resp'[w].product_id = local[w].product_id
               /\ listing'[Len(listing')].product_id = local[w].product_id
               /\ Len(listing') = Len(listing) + 1]_vars

\* two requests without slug have added two Products and their two Listings
C16_Witness ==
    \E w \in Workers :
        /\ pc[w] = "cl_done"
        /\ resp[w].code = 200
        /\ resp[w].product_id = Str(2)
        /\ Len(product) = 2
        /\ product[1].slug = ""
        /\ product[2].slug = ""
        /\ Len(listing) = 2
        /\ listing[1].product_id = Str(1)
        /\ listing[2].product_id = Str(2)

\* the listings created through createListing
CreatedListings == (legacy + 1)..Len(listing)

\* C17: in every reachable state (in the middle of a checkout and under
\* concurrent checkouts too) every listing created through createListing
\* whose status is "sold" is referenced by at least one Order.
C17_SoldHasOrder ==
    \A l \in CreatedListings :
        listing[l].status = "sold" => OrdersOf(l) # {}

\* two concurrent checkouts have sold a created listing: it is "sold" and two
\* Orders reference it
C17_Witness ==
    /\ legacy = 0
    /\ Len(listing) = 1
    /\ listing[1].status = "sold"
    /\ Cardinality(OrdersOf(1)) = 2

\* the checkouts of listing l between their Order insert and status write
Selling(l) == {w \in Workers : pc[w] = "co_sold" /\ local[w].found = l}

\* C18: with store operations that do not fail, in every reachable state a
\* listing that an Order references and whose status is not "sold" has a
\* checkout between its Order insert and its status write; so when no
\* checkout of the listing is in flight, an Order references it only if its
\* status is "sold".
C18_OrderedIsSoldOrSelling ==
    \A l \in ListingIds :
        (OrdersOf(l) # {} /\ listing[l].status # "sold") => Selling(l) # {}

\* an Order references a created listing that is still active: its checkout
\* stands before the status write
C18_Witness ==
    \E w \in Workers :
        /\ pc[w] = "co_sold"
        /\ local[w].found = 1
        /\ legacy = 0
        /\ listing[1].status = "active"
        /\ Cardinality(OrdersOf(1)) = 1

\* C19: in every reachable state every Order's and every Offer's listing_id
\* identifies a Listing in the store, and the product_id of every Listing
\* created through createListing identifies a Product in the store.
C19_ReferentialIntegrity ==
    /\ \A i \in 1..Len(order) :
         \E l \in ListingIds : Identifies(order[i].listing_id, l)
    /\ \A i \in 1..Len(offer) :
         \E l \in ListingIds : Identifies(offer[i].listing_id, l)
    /\ \A l \in CreatedListings :
         \E p \in 1..Len(product) : Identifies(listing[l].product_id, p)

\* a created listing of a stored product carries an Offer sent under the
\* other spelling of its id and an Order
C19_Witness ==
    /\ legacy = 0
    /\ Len(product) = 1
    /\ Len(listing) = 1
    /\ listing[1].product_id = Str(1)
    /\ Len(offer) = 1
    /\ offer[1].listing_id = 0 - 1
    /\ Len(order) = 1
    /\ order[1].listing_id = Str(1)
=============================================================================
